---- MODULE Spec2Model ----
(***************************************************************************)
(* Model of the insights request handler of src/1.py: the POST             *)
(* /generate_insights handler, the financial-data fetcher, the LLM call    *)
(* wrapper and the graph-data deriver.                                     *)
(*                                                                         *)
(* A Python dict is a sequence of [key, value] records in insertion order. *)
(* A provider table (a pandas DataFrame) is [columns, index, data]:        *)
(* columns are the reporting dates, index the line items, data[i][j] the   *)
(* value of line item j at date i.                                         *)
(***************************************************************************)
EXTENDS Integers, Sequences, FiniteSets, TLC

VARIABLES
    pc,                \* position of the handler: "idle", "fetching", "generating", "done"
    req_body,          \* the JSON object of the request (line 91)
    ticker,            \* req_body.get("ticker") (line 94)
    value_proposition, \* req_body.get("value_proposition") (line 95)
    financial_data,    \* the dict built at lines 106-110
    sections,          \* the list built at lines 113-121
    idx,               \* position of the section loop (line 124)
    insights,          \* the dict filled at line 142
    graphs,            \* the dict returned at line 145
    response,          \* the responses sent for the current request
    trace,             \* the events of the current request, in order
    outstanding,       \* external calls in flight
    gPc,               \* position of a direct call of generate_graph_data
    gArg,              \* the argument the caller passed to generate_graph_data
    gFd,               \* the parameter financial_data inside the call
    gGraphs,           \* the dict `graphs` of the most recent call (line 73)
    gMemo              \* an earlier call of generate_graph_data, remembered

vars == <<pc, req_body, ticker, value_proposition, financial_data, sections, idx,
          insights, graphs, response, trace, outstanding, gPc, gArg, gFd, gGraphs, gMemo>>

hvars == <<pc, req_body, ticker, value_proposition, financial_data, sections, idx,
           insights, graphs, response, trace, outstanding>>

gvars == <<gPc, gArg, gFd, gGraphs, gMemo>>

-----------------------------------------------------------------------------
(* Bounds *)

\* dates, and line items in all, of the dicts passed straight to generate_graph_data
MaxDates == 2
MaxCells == 3
\* columns and rows of the tables the data provider returns to the handler
MaxFrameDates == 2
MaxFrameItems == 1
\* dates, and line items in all, of the dicts of the repeated-call specification
MaxPureDates == 3
MaxPureCells == 1

DateNames == <<"2023-12-31", "2022-12-31", "2021-12-31", "2020-12-31">>
LabelNames == <<"Cash", "Total Debt", "Net PPE", "Goodwill">>

\* Python values of a line item, by type
Values ==
    { [type |-> "int", v |-> 1], [type |-> "float", v |-> 2],
      [type |-> "NoneType", v |-> 0], [type |-> "str", v |-> 0] }

\* the values of a provider table: a number, or None for a missing one
ProviderValues == { [type |-> "float", v |-> 2], [type |-> "NoneType", v |-> 0] }

-----------------------------------------------------------------------------
(* Python dict *)

None == "<None>"

DictKeys(d) == { d[i].key : i \in 1..Len(d) }

DictGet(d, k) ==
    IF k \in DictKeys(d)
    THEN d[CHOOSE i \in 1..Len(d) : d[i].key = k].value
    ELSE None

\* d[k] = v : replaces the value of an existing key in place, else appends
DictSetAppendOnly(d, k, v) == Append(d, [key |-> k, value |-> v])

DictSet(d, k, v) ==
    IF k \in DictKeys(d)
    THEN [i \in 1..Len(d) |-> IF d[i].key = k THEN [key |-> k, value |-> v] ELSE d[i]]
    ELSE Append(d, [key |-> k, value |-> v])

-----------------------------------------------------------------------------
(* generate_graph_data, lines 72-86 *)

\* isinstance(value, (int, float))
IsIntOnly(value) == value.type = "int"

IsIntOrFloat(value) == value.type \in {"int", "float"}

RECURSIVE ResultPairs(_, _)
\* [(key, value) for key, value in data.items() if isinstance(...)], from item j on
ResultPairs(data, j) ==
    IF j > Len(data) THEN <<>>
    ELSE IF IsIntOrFloat(data[j].value)
         THEN <<(<<data[j].key, data[j].value>>)>> \o ResultPairs(data, j + 1)
         ELSE ResultPairs(data, j + 1)

GraphData(date, data) ==
    LET result == ResultPairs(data, 1)
    IN  [ query  |-> <<"Plot a bar chart for the balance sheet data on ", date>>,
          result |-> result,
          answer |-> [ message |-> "The bar chart has been plotted successfully",
                       type    |-> "Bar Chart",
                       data    |-> [ n \in 1..Len(result) |->
                                       [ label |-> result[n][1],
                                         value |-> result[n][2],
                                         valueColor |-> "hsl(120, 70%, 50%)" ] ] ] ]

\* graphs = {} : a fresh dict in every call
InitialGraphsShared == gGraphs

InitialGraphs == <<>>

RECURSIVE GraphLoop(_, _, _)
GraphLoop(balance_sheet, i, acc) ==
    IF i > Len(balance_sheet) THEN acc
    ELSE GraphLoop(balance_sheet, i + 1,
                   DictSet(acc, balance_sheet[i].key,
                           GraphData(balance_sheet[i].key, balance_sheet[i].value)))

generate_graph_data(fd) == GraphLoop(fd.balance_sheet, 1, InitialGraphs)

-----------------------------------------------------------------------------
(* Inputs of generate_graph_data *)

ItemMaps(maxI, values) ==
    UNION { { [j \in 1..r |-> [key |-> LabelNames[j], value |-> v[j]]] :
                v \in [1..r -> values] } : r \in 0..maxI }

RECURSIVE SheetTails(_, _, _, _)
\* the dicts of the dates i..maxD, in order, with at most `cells` line items in all
SheetTails(i, maxD, cells, values) ==
    IF i > maxD THEN { <<>> }
    ELSE { <<>> } \cup
         UNION { { <<[key |-> DateNames[i], value |-> m]>> \o t :
                     t \in SheetTails(i + 1, maxD, cells - Len(m), values) } :
                 m \in ItemMaps(cells, values) }

SheetDicts(maxD, cells, values) == SheetTails(1, maxD, cells, values)

FinancialDicts(maxD, cells, values) ==
    { [balance_sheet |-> b, income_statement |-> <<>>, cash_flow |-> <<>>] :
        b \in SheetDicts(maxD, cells, values) }

NoFinancialData == [balance_sheet |-> <<>>, income_statement |-> <<>>, cash_flow |-> <<>>]

NoMemo == [set |-> FALSE, again |-> FALSE, arg |-> NoFinancialData, out |-> <<>>]

-----------------------------------------------------------------------------
(* The data provider and get_financial_data, lines 46-58 *)

Frames(maxD, maxI) ==
    UNION { { [columns |-> SubSeq(DateNames, 1, c), index |-> SubSeq(LabelNames, 1, r),
               data |-> d] : d \in [1..c -> [1..r -> ProviderValues]] } :
            c \in 0..maxD, r \in 0..maxI }

EmptyFrame == [columns |-> <<>>, index |-> <<>>, data |-> <<>>]

\* the income statement and the cash flow: no table, or one date with one line item
ThinFrames ==
    { EmptyFrame,
      [columns |-> <<DateNames[1]>>, index |-> <<"Net Income">>,
       data |-> << <<[type |-> "float", v |-> 2]>> >>] }

\* DataFrame.empty: some axis has length 0
empty(frame) == Len(frame.columns) = 0 \/ Len(frame.index) = 0

\* DataFrame.to_dict(): column -> {index -> value}
to_dict(frame) ==
    [i \in 1..Len(frame.columns) |->
        [key |-> frame.columns[i],
         value |-> [j \in 1..Len(frame.index) |->
                      [key |-> frame.index[j], value |-> frame.data[i][j]]]]]

\* what the provider does when asked for the three statements
FetchOutcomes ==
    { [raises |-> TRUE, balance_sheet |-> EmptyFrame, financials |-> EmptyFrame,
       cashflow |-> EmptyFrame] }
    \cup
    { [raises |-> FALSE, balance_sheet |-> b, financials |-> f, cashflow |-> c] :
        b \in Frames(MaxFrameDates, MaxFrameItems), f \in ThinFrames, c \in ThinFrames }

NoExc == [cls |-> "", status_code |-> "", msg |-> <<>>]

ValueError(message) == [cls |-> "ValueError", status_code |-> "", msg |-> <<message>>]

HTTPException(code, detail) == [cls |-> "HTTPException", status_code |-> code, msg |-> detail]

\* str(e)
Str(exc) ==
    IF exc.cls = "HTTPException" THEN <<exc.status_code, ": ">> \o exc.msg ELSE exc.msg

Raise(exc) == [raised |-> TRUE, exc |-> exc, value |-> <<>>]

Return(value) == [raised |-> FALSE, exc |-> NoExc, value |-> value]

get_financial_data(outcome) ==
    IF outcome.raises
    THEN Raise(HTTPException("400", <<"Error fetching financial data: ", "provider error">>))
    ELSE IF empty(outcome.balance_sheet) \/ empty(outcome.financials)
            \/ empty(outcome.cashflow)
         THEN Raise(HTTPException("400",
                  <<"Error fetching financial data: ",
                    "Invalid ticker symbol or no data available.">>))
         ELSE Return(<<outcome.balance_sheet, outcome.financials, outcome.cashflow>>)

-----------------------------------------------------------------------------
(* The LLM provider and generate_insights_from_groq, lines 61-69 *)

\* the text of the k-th completion of a request; the handler never looks into a
\* text, so each call's text gets a name of its own
TextNames == <<"text 1", "text 2", "text 3", "text 4", "text 5", "text 6">>

\* what the provider does on the k-th call: a completion, an error of the
\* client library (GroqError), or a completion without choices (line 67)
LlmOutcomes(k) ==
    { [kind |-> "ok", content |-> TextNames[k]],
      [kind |-> "GroqError", content |-> "rate limit exceeded"],
      [kind |-> "IndexError", content |-> "list index out of range"] }

generate_insights_from_groq_swallow(outcome) == Return(outcome.content)

generate_insights_from_groq(outcome) ==
    IF outcome.kind = "ok" THEN Return(outcome.content)
    ELSE IF outcome.kind = "GroqError"
         THEN Raise(HTTPException("500", <<"Error generating insights: ", outcome.content>>))
         ELSE Raise([cls |-> outcome.kind, status_code |-> "", msg |-> <<outcome.content>>])

-----------------------------------------------------------------------------
(* The request and the handler generate_insights, lines 88-159 *)

TickerValues == {"", "AAPL"}

ValuePropositionValues == {"", "Grow margins", "Key Competitors", "Brainstorm Values"}

\* the JSON objects a client posts: each field present or absent
Bodies ==
    UNION { { b \in [S -> TickerValues \cup ValuePropositionValues] :
                /\ "ticker" \in S => b["ticker"] \in TickerValues
                /\ "value_proposition" \in S
                     => b["value_proposition"] \in ValuePropositionValues } :
            S \in SUBSET {"ticker", "value_proposition"} }

NoBody == [k \in {} |-> ""]

\* req_body.get(k)
Get(body, k) == IF k \in DOMAIN body THEN body[k] ELSE None

\* the truth value `not x` negates: None and "" are false
TruthyNotNone(x) == x # None

Truthy(x) == x # None /\ x # ""

\* lines 113-121
SectionsPrepended(vp) ==
    <<vp, "Earnings Data Analysis", "Financial Data Analysis", "Brainstorm Values",
      "Financial Prediction", "Key Competitors">>

Sections(vp) ==
    Append(<<"Earnings Data Analysis", "Financial Data Analysis", "Brainstorm Values",
             "Financial Prediction", "Key Competitors">>, vp)

\* lines 125-140: the f-string, by its template line and the three fields it embeds
PromptGeneric(section, company, vp) ==
    [ Section |-> section, Company |-> company, ValueProposition |-> vp,
      instruction |-> "Analyze the information and provide detailed insights." ]

Prompt(section, company, vp) ==
    [ Section |-> section, Company |-> company, ValueProposition |-> vp,
      instruction |-> IF section = "Key Competitors"
                      THEN "Identify and analyze key competitors of the company."
                      ELSE "Analyze the information and provide detailed insights." ]

\* lines 156-159
HandlerStatus(exc) == IF exc.cls = "ValueError" THEN 400 ELSE 500

ErrorResponseWithPartial(exc) ==
    [ status_code |-> HandlerStatus(exc),
      content |-> [error |-> Str(exc), insights |-> insights] ]

ErrorResponse(exc) ==
    [ status_code |-> HandlerStatus(exc), content |-> [error |-> Str(exc)] ]

\* line 154; JSONResponse's default status
SuccessResponse(result) == [status_code |-> 200, content |-> result]

Event(ev, ok, info) == [ev |-> ev, ok |-> ok, info |-> info]

LlmCall(section) ==
    Event("llm_call", TRUE,
          [section |-> section, prompt |-> Prompt(section, ticker, value_proposition)])

\* lines 90-103: read the body, validate, issue the fetch
Receive(body) ==
    /\ pc \in {"idle", "done"}
    /\ req_body' = body
    /\ ticker' = Get(body, "ticker")
    /\ value_proposition' = Get(body, "value_proposition")
    /\ financial_data' = NoFinancialData
    /\ sections' = <<>>
    /\ idx' = 0
    /\ insights' = <<>>
    /\ graphs' = <<>>
    /\ IF ~Truthy(ticker') \/ ~Truthy(value_proposition')
       THEN LET exc == IF ~Truthy(ticker')
                       THEN ValueError("Ticker value cannot be empty.")
                       ELSE ValueError("Value proposition cannot be empty.")
                resp == ErrorResponse(exc)
            IN  /\ response' = <<resp>>
                /\ trace' = <<Event("response", FALSE, resp.status_code)>>
                /\ outstanding' = 0
                /\ pc' = "done"
       ELSE /\ response' = <<>>
            /\ trace' = <<Event("fetch_call", TRUE, ticker')>>
            /\ outstanding' = 1
            /\ pc' = "fetching"
    /\ UNCHANGED gvars

\* lines 103-141: the fetch returns; build the dicts and the sections, issue the
\* first LLM call
FetchReturn(outcome) ==
    /\ pc = "fetching"
    /\ LET r == get_financial_data(outcome)
       IN  IF r.raised
           THEN LET resp == ErrorResponse(r.exc)
                IN  /\ response' = Append(response, resp)
                    /\ trace' = trace \o <<Event("fetch_return", FALSE, outcome.raises),
                                           Event("response", FALSE, resp.status_code)>>
                    /\ outstanding' = 0
                    /\ pc' = "done"
                    /\ UNCHANGED <<financial_data, sections, idx, insights>>
           ELSE /\ financial_data' = [ balance_sheet |-> to_dict(r.value[1]),
                                       income_statement |-> to_dict(r.value[2]),
                                       cash_flow |-> to_dict(r.value[3]) ]
                /\ sections' = Sections(value_proposition)
                /\ insights' = <<>>
                /\ idx' = 1
                /\ trace' = trace \o <<Event("fetch_return", TRUE, FALSE),
                                       LlmCall(sections'[1])>>
                /\ outstanding' = 1
                /\ pc' = "generating"
                /\ UNCHANGED response
    /\ UNCHANGED <<req_body, ticker, value_proposition, graphs>>
    /\ UNCHANGED gvars

\* lines 141-159: an LLM call returns; store the text, then issue the next call or
\* derive the graphs and respond
LlmReturn ==
    /\ pc = "generating"
    /\ \E outcome \in LlmOutcomes(idx) :
       LET r == generate_insights_from_groq(outcome)
           ret == Event("llm_return", outcome.kind = "ok", outcome.content)
       IN  IF r.raised
           THEN LET resp == ErrorResponse(r.exc)
                IN  /\ response' = Append(response, resp)
                    /\ trace' = trace \o <<ret, Event("response", FALSE, resp.status_code)>>
                    /\ outstanding' = 0
                    /\ pc' = "done"
                    /\ UNCHANGED <<idx, insights, graphs>>
           ELSE /\ insights' = DictSet(insights, sections[idx], r.value)
                /\ IF idx < Len(sections)
                   THEN /\ idx' = idx + 1
                        /\ trace' = trace \o <<ret, LlmCall(sections[idx'])>>
                        /\ outstanding' = 1
                        /\ pc' = "generating"
                        /\ UNCHANGED <<graphs, response>>
                   ELSE LET resp == SuccessResponse(
                                      [ financial_data |-> financial_data,
                                        insights |-> insights',
                                        graphs |-> graphs' ])
                        IN  /\ graphs' = generate_graph_data(financial_data)
                            /\ response' = Append(response, resp)
                            /\ trace' = trace \o <<ret, Event("graph", TRUE, Len(graphs')),
                                                   Event("response", TRUE, resp.status_code)>>
                            /\ outstanding' = 0
                            /\ pc' = "done"
                            /\ UNCHANGED idx
    /\ UNCHANGED <<req_body, ticker, value_proposition, financial_data, sections>>
    /\ UNCHANGED gvars

HandlerIdle ==
    /\ pc = "idle"
    /\ req_body = NoBody
    /\ ticker = None
    /\ value_proposition = None
    /\ financial_data = NoFinancialData
    /\ sections = <<>>
    /\ idx = 0
    /\ insights = <<>>
    /\ graphs = <<>>
    /\ response = <<>>
    /\ trace = <<>>
    /\ outstanding = 0

GraphIdle ==
    /\ gPc = "ready"
    /\ gArg = NoFinancialData
    /\ gFd = NoFinancialData
    /\ gGraphs = <<>>
    /\ gMemo = NoMemo

Init == HandlerIdle /\ GraphIdle

Next ==
    \/ \E body \in Bodies : Receive(body)
    \/ \E outcome \in FetchOutcomes : FetchReturn(outcome)
    \/ LlmReturn

Spec == Init /\ [][Next]_vars

-----------------------------------------------------------------------------
(* generate_graph_data called directly *)

\* one call, its argument drawn from the bounded dicts
GraphInit ==
    /\ HandlerIdle
    /\ gPc = "called"
    /\ gArg \in FinancialDicts(MaxDates, MaxCells, Values)
    /\ gFd = gArg
    /\ gGraphs = <<>>
    /\ gMemo = NoMemo

\* lines 73-86: the body runs and returns; nothing assigns to the parameter
GraphReturn ==
    /\ gPc = "called"
    /\ gGraphs' = generate_graph_data(gFd)
    /\ gPc' = "returned"
    /\ UNCHANGED <<gArg, gFd, gMemo>>
    /\ UNCHANGED hvars

GraphSpec == GraphInit /\ [][GraphReturn]_vars

\* a whole call, lines 72-86
Invoke(fd) ==
    /\ gPc \in {"ready", "returned"}
    /\ gArg' = fd
    /\ gFd' = fd
    /\ gGraphs' = generate_graph_data(fd)
    /\ gPc' = "returned"
    /\ gMemo' = [gMemo EXCEPT !.again = gMemo.set]
    /\ UNCHANGED hvars

\* the caller keeps the argument and the result of a call for later comparison;
\* gMemo.again tells that another call has returned since
Remember ==
    /\ gPc = "returned"
    /\ ~gMemo.set
    /\ gMemo' = [set |-> TRUE, again |-> FALSE, arg |-> gArg, out |-> gGraphs]
    /\ UNCHANGED <<gPc, gArg, gFd, gGraphs>>
    /\ UNCHANGED hvars

PureNext ==
    \/ \E fd \in FinancialDicts(MaxPureDates, MaxPureCells, ProviderValues) : Invoke(fd)
    \/ Remember

PureSpec == Init /\ [][PureNext]_vars

-----------------------------------------------------------------------------
(* Claims about the handler, checked under Spec *)

\* C1: a request whose ticker or value_proposition is empty or absent is answered
\* with status 400 and a body {error: message}, and neither the data provider nor
\* the LLM provider is called while it is handled.
C1_InvalidInputIs400 ==
    ( /\ pc # "idle"
      /\ \/ "ticker" \notin DOMAIN req_body
         \/ "value_proposition" \notin DOMAIN req_body
         \/ req_body["ticker"] = ""
         \/ req_body["value_proposition"] = "" )
    => /\ pc = "done"
       /\ Len(response) = 1
       /\ response[1].status_code = 400
       /\ DOMAIN response[1].content = {"error"}
       /\ outstanding = 0
       /\ \A i \in 1..Len(trace) : trace[i].ev \notin {"fetch_call", "llm_call"}

C1_Witness ==
    /\ pc = "done"
    /\ DOMAIN req_body = {"ticker", "value_proposition"}
    /\ req_body["ticker"] = "AAPL"
    /\ req_body["value_proposition"] = ""
    /\ response[1].status_code = 400

\* C2 (as claimed): when the data provider throws or returns an empty table for one
\* of the three statements, the response is an error with status 400 and no LLM
\* call is made.
C2_DataUnavailableIs400 ==
    ( /\ pc = "done"
      /\ \E i \in 1..Len(trace) : trace[i].ev = "fetch_return" /\ ~trace[i].ok )
    => /\ Len(response) = 1
       /\ response[1].status_code = 400
       /\ DOMAIN response[1].content = {"error"}
       /\ \A i \in 1..Len(trace) : trace[i].ev # "llm_call"

\* C3 (as claimed): a successful response holds six insights, one per fixed label
\* and one keyed by the value proposition, each the text of that section's own call,
\* also when the value proposition equals a fixed label.
C3_SixEntries ==
    ( pc = "done" /\ Len(response) = 1 /\ response[1].status_code = 200 )
    => LET ins == response[1].content.insights
           IsReturn(e) == e.ev = "llm_return"
           rets == SelectSeq(trace, IsReturn)
           labels == <<"Earnings Data Analysis", "Financial Data Analysis",
                       "Brainstorm Values", "Financial Prediction", "Key Competitors",
                       req_body["value_proposition"]>>
       IN  /\ Len(ins) = 6
           /\ Len(rets) = 6
           /\ DictKeys(ins) = { labels[k] : k \in 1..6 }
           /\ \A k \in 1..6 : DictGet(ins, labels[k]) = rets[k].info

\* C3 (amended): a successful response holds exactly one insight per distinct label
\* among the five fixed labels and the value proposition: six when the value
\* proposition is no fixed label, five when it is one; each entry holds the text of
\* the last call made for its label, which is the value proposition's call for the
\* label the value proposition repeats.
C3_OneEntryPerDistinctLabel ==
    ( pc = "done" /\ Len(response) = 1 /\ response[1].status_code = 200 )
    => LET ins == response[1].content.insights
           IsReturn(e) == e.ev = "llm_return"
           rets == SelectSeq(trace, IsReturn)
           vp == req_body["value_proposition"]
           fixed == <<"Earnings Data Analysis", "Financial Data Analysis",
                      "Brainstorm Values", "Financial Prediction", "Key Competitors">>
           labels == Append(fixed, vp)
           isFixed == \E k \in 1..5 : fixed[k] = vp
           Last(label) == CHOOSE k \in 1..6 :
                            /\ labels[k] = label
                            /\ \A m \in 1..6 : labels[m] = label => m <= k
       IN  /\ Len(rets) = 6
           /\ DictKeys(ins) = { labels[k] : k \in 1..6 }
           /\ Len(ins) = Cardinality(DictKeys(ins))
           /\ Len(ins) = IF isFixed THEN 5 ELSE 6
           /\ \A k \in 1..6 : DictGet(ins, labels[k]) = rets[Last(labels[k])].info
           /\ DictGet(ins, vp) = rets[6].info

C3_Witness ==
    /\ pc = "done"
    /\ Len(response) = 1
    /\ response[1].status_code = 200
    /\ req_body["value_proposition"] = "Brainstorm Values"
    /\ Len(response[1].content.insights) = 5

C7_CallOrder ==
    LET order == <<"Earnings Data Analysis", "Financial Data Analysis",
                   "Brainstorm Values", "Financial Prediction", "Key Competitors",
                   req_body["value_proposition"]>>
        IsLlmCall(e) == e.ev = "llm_call"
        IsLlmReturn(e) == e.ev = "llm_return"
        IsFetchCall(e) == e.ev = "fetch_call"
        calls == SelectSeq(trace, IsLlmCall)
        rets == SelectSeq(trace, IsLlmReturn)
        n == Len(trace)
    IN  /\ outstanding \in {0, 1}
        /\ Len(SelectSeq(trace, IsFetchCall)) <= 1
        /\ Len(calls) <= 6
        /\ \A k \in 1..Len(calls) : calls[k].info.section = order[k]
        /\ \A i \in 1..n :
             /\ trace[i].ev = "fetch_call" => i = 1
             /\ trace[i].ev = "fetch_return" => i = 2
             /\ trace[i].ev = "llm_call"
                  => /\ i > 2
                     /\ trace[2].ev = "fetch_return" /\ trace[2].ok
                     /\ trace[i - 1].ev \in {"fetch_return", "llm_return"}
                     /\ trace[i - 1].ok
                     /\ i < n => trace[i + 1].ev = "llm_return"
             /\ trace[i].ev = "llm_return" => trace[i - 1].ev = "llm_call"
             /\ trace[i].ev = "graph"
                  => /\ Len(SelectSeq(SubSeq(trace, 1, i), IsLlmReturn)) = 6
                     /\ \A j \in 1..n : trace[j].ev \in {"llm_call", "llm_return"} => j < i
             /\ trace[i].ev = "response"
                  => /\ i = n
                     /\ trace[i].ok => trace[i - 1].ev = "graph"
        /\ outstanding = 1 <=> (n > 0 /\ trace[n].ev \in {"fetch_call", "llm_call"})
        /\ (pc = "done" /\ response[1].status_code = 200)
             => Len(calls) = 6 /\ Len(rets) = 6 /\ \A k \in 1..6 : rets[k].ok

C7_Witness ==
    /\ pc = "done"
    /\ response[1].status_code = 200
    /\ req_body["value_proposition"] = "Grow margins"
    /\ Len(trace) = 16

\* C8: after the fetch fails or an LLM call fails, the request makes no further
\* external call and derives no graphs: the failed return is followed at once by the
\* error response, which ends the request.
C8_FirstFailureAborts ==
    \A i \in 1..Len(trace) :
        (trace[i].ev \in {"fetch_return", "llm_return"} /\ ~trace[i].ok)
        => /\ Len(trace) = i + 1
           /\ trace[i + 1].ev = "response"
           /\ trace[i + 1].info \in {400, 500}
           /\ \A j \in 1..Len(trace) : trace[j].ev # "graph"
           /\ pc = "done"
           /\ outstanding = 0
           /\ graphs = <<>>

C8_Witness ==
    /\ pc = "done"
    /\ Len(trace) = 7
    /\ trace[6].ev = "llm_return"
    /\ ~trace[6].ok
    /\ trace[6].info = "list index out of range"

\* C9 (as claimed): of the six prompts of a successful request exactly one, that of
\* the fixed "Key Competitors" section, is a competitor-analysis prompt; the prompt
\* of the value-proposition section is generic for any value proposition.
C9_ExactlyOneCompetitorPrompt ==
    ( pc = "done" /\ response[1].status_code = 200 )
    => LET IsLlmCall(e) == e.ev = "llm_call"
           calls == SelectSeq(trace, IsLlmCall)
           competitor == "Identify and analyze key competitors of the company."
       IN  /\ Len(calls) = 6
           /\ \A k \in 1..6 : calls[k].info.prompt.instruction = competitor <=> k = 5

\* C9 (amended): a section's prompt uses the competitor-analysis template exactly
\* when its label is "Key Competitors", and the generic template otherwise; so a
\* successful request has one competitor-analysis prompt, or two when the value
\* proposition is itself "Key Competitors"; every prompt embeds its section label,
\* the ticker and the value proposition.
C9_TemplateByLabel ==
    LET IsLlmCall(e) == e.ev = "llm_call"
        calls == SelectSeq(trace, IsLlmCall)
        competitor == "Identify and analyze key competitors of the company."
        generic == "Analyze the information and provide detailed insights."
        order == <<"Earnings Data Analysis", "Financial Data Analysis",
                   "Brainstorm Values", "Financial Prediction", "Key Competitors",
                   req_body["value_proposition"]>>
    IN  /\ \A k \in 1..Len(calls) :
             LET prompt == calls[k].info.prompt
             IN  /\ k <= 6
                 /\ prompt.Section = order[k]
                 /\ prompt.Company = req_body["ticker"]
                 /\ prompt.ValueProposition = req_body["value_proposition"]
                 /\ prompt.instruction =
                      IF order[k] = "Key Competitors" THEN competitor ELSE generic
        /\ (pc = "done" /\ response[1].status_code = 200)
             => Cardinality({ k \in 1..Len(calls) :
                                calls[k].info.prompt.instruction = competitor })
                  = IF req_body["value_proposition"] = "Key Competitors" THEN 2 ELSE 1

C9_Witness ==
    /\ pc = "done"
    /\ response[1].status_code = 200
    /\ req_body["value_proposition"] = "Key Competitors"
    /\ trace[13].ev = "llm_call"
    /\ trace[13].info.prompt.instruction
         = "Identify and analyze key competitors of the company."

\* C10 (as claimed): a request whose external calls all return ends with one
\* response; it is 200 with the keys financial_data, insights and graphs exactly
\* when validation passed, the fetch returned three non-empty tables and six LLM
\* calls succeeded; otherwise the body has the key error alone, with status 400 for
\* invalid input or unavailable data and 500 for a generation failure.
C10_ResponseTaxonomy ==
    pc = "done"
    => LET IsOkReturn(e) == e.ev = "llm_return" /\ e.ok
           invalid == \/ "ticker" \notin DOMAIN req_body
                      \/ "value_proposition" \notin DOMAIN req_body
                      \/ req_body["ticker"] = ""
                      \/ req_body["value_proposition"] = ""
           fetched == \E i \in 1..Len(trace) : trace[i].ev = "fetch_return" /\ trace[i].ok
           unavailable ==
               \E i \in 1..Len(trace) : trace[i].ev = "fetch_return" /\ ~trace[i].ok
           generated == Len(SelectSeq(trace, IsOkReturn)) = 6
           status == response[1].status_code
           keys == DOMAIN response[1].content
       IN  /\ Len(response) = 1
           /\ status \in {200, 400, 500}
           /\ status = 200 <=> (~invalid /\ fetched /\ generated)
           /\ status = 200 => keys = {"financial_data", "insights", "graphs"}
           /\ status # 200
                => /\ keys = {"error"}
                   /\ status = IF invalid \/ unavailable THEN 400 ELSE 500

-----------------------------------------------------------------------------
(* Claims about generate_graph_data *)

\* C5 (under GraphSpec): the returned graphs have exactly one entry per reporting
\* date of the balance sheet, and each entry's result holds exactly the (label,
\* value) pairs of that date's line items whose value is an int or a float, in the
\* line items' order; None and string values are left out.
C5_GraphsPerDateNumericOnly ==
    gPc = "returned"
    => LET bs == gArg.balance_sheet
           Numeric(item) == item.value.type \notin {"NoneType", "str"}
           Expected(data) ==
               LET kept == SelectSeq(data, Numeric)
               IN  [n \in 1..Len(kept) |-> <<kept[n].key, kept[n].value>>]
       IN  /\ DictKeys(gGraphs) = DictKeys(bs)
           /\ Len(gGraphs) = Cardinality(DictKeys(bs))
           /\ \A i \in 1..Len(bs) :
                /\ gGraphs[i].key = bs[i].key
                /\ DictGet(gGraphs, bs[i].key).result = Expected(bs[i].value)

C5_Witness ==
    /\ gPc = "returned"
    /\ Len(gArg.balance_sheet) = 2
    /\ Len(gGraphs) = 2
    /\ Len(gArg.balance_sheet[2].value) = 2
    /\ gArg.balance_sheet[2].value[1].value.type = "NoneType"
    /\ gArg.balance_sheet[2].value[2].value.type = "float"
    /\ Len(gGraphs[2].value.result) = 1
    /\ gGraphs[2].value.result[1][1] = "Total Debt"

====
